---- MODULE Spec2Model ----
(***************************************************************************)
(* img_sort: triangular_table (img_sort.h), and the array-based            *)
(* compute_mst, pre_order and main of the pipeline.                        *)
(***************************************************************************)
EXTENDS Integers, Sequences, FiniteSets, TLC

\* ------------------------------------------------------------------ bounds
\* largest number of image files found by main
MaxItems == 3
\* largest size compute_mst is called with on every table of that width
MaxN == 3
\* largest cost in a table compute_mst is called on
MaxW == 2
\* largest width of a table built by the table tests
MaxWidth == 3
\* largest value stored through an iterator by the table tests
MaxVal == 1
\* largest value a histogram takes in main
MaxHist == 1

\* std::numeric_limits<T>::max() for T = int
TMax == 2147483647

VARIABLES
    m_width,              \* triangular_table::m_width
    m_data,               \* triangular_table::m_data
    constructed,          \* the table object exists
    it,                   \* a triangular_table::iterator of the table tests
    visited,              \* coordinates dereferenced since the last begin()
    first_run,            \* coordinates of the first complete begin()..end() run
    result,               \* what the last table call of the tests returned or threw
    main_pc,              \* position of main
    filenames,            \* filenames.size()
    histograms,           \* histograms.size()
    mats,                 \* histogram::mat of each image, as calculate_histogram left it
    in_flight,            \* iterator positions a worker of for_each is in compute_diff on
    computed,             \* iterator positions compute_diff has returned on
    ret,                  \* main's return value
    pc,                   \* position inside compute_mst / pre_order
    size,                 \* compute_mst's size argument
    ndebug,               \* the build defines NDEBUG
    t,                    \* the tree
    candidates,           \* compute_mst's candidate array
    just_inserted_index,
    just_inserted,
    min_entry,            \* index selected by the last scan (0: dummy_entry)
    inserted,             \* the nodes of the tree in the order they entered it
    order,                \* pre_order's output
    stack,                \* pre_order's stack
    error,                \* the RUNTIME_ASSERT condition that threw
    hpc,                  \* position inside the heap-based compute_mst
    heap,                 \* its std::priority_queue<pq_entry>
    ht,                   \* its tree
    herror                \* the RUNTIME_ASSERT condition that threw in it

table_vars == <<m_width, m_data, constructed>>
test_vars == <<it, visited, first_run, result>>
main_vars == <<main_pc, filenames, histograms, mats, in_flight, computed, ret>>
mst_vars == <<pc, size, ndebug, t, candidates, just_inserted_index,
              just_inserted, min_entry, inserted, order, stack, error>>
heap_vars == <<hpc, heap, ht, herror>>
vars == <<table_vars, test_vars, main_vars, mst_vars, heap_vars>>

\* ------------------------------------------------------- triangular_table
nth_triangular(n) == (n * (n + 1)) \div 2

\* vector size the constructor asks for
DataSize(n) == nth_triangular(n) - n

\* the constructor's check accepting an empty table
CtorErr_AcceptsZero(n) == IF n >= 0 THEN "none" ELSE "n > 0"

\* triangular_table::triangular_table(n, val): the error it throws, if any
CtorErr(n) == IF n > 0 THEN "none" ELSE "n > 0"

NewData(n, val) == [k \in 1..DataSize(n) |-> val]

\* operator()(x, y): the RUNTIME_ASSERT that fails, if any
GetErr(w, x, y) ==
    IF ~(x < w /\ y < w) THEN "x < m_width && y < m_width"
    ELSE IF ~(x # y) THEN "x != y"
    ELSE "none"

\* operator() without the swap of the coordinates
GetOffset_NoSwap(x, y) == nth_triangular(y - 1) + x

\* operator()(x, y): flat offset of the cell (0-based), after the swap
GetOffset(x, y) ==
    LET lo == IF y < x THEN y ELSE x
        hi == IF y < x THEN x ELSE y
    IN  nth_triangular(hi - 1) + lo

\* operator()(x, y) on a table with the given data
Get(data, x, y) == data[GetOffset(x, y) + 1]

\* row(y): the RUNTIME_ASSERT that fails, if any
RowErr(w, y) == IF y < w THEN "none" ELSE "y < m_width"

\* row(y) filtering on x < y, the stored triangle only
Row_Lower(w, data, y) ==
    LET irange == [k \in 1..w |-> k - 1]
        filtered == SelectSeq(irange, LAMBDA x : x < y)
    IN  [k \in 1..Len(filtered) |-> <<filtered[k], y, Get(data, filtered[k], y)>>]

\* row(y): irange(0, m_width) | filtered(x != y) | transformed(func)
Row(w, data, y) ==
    LET irange == [k \in 1..w |-> k - 1]
        filtered == SelectSeq(irange, LAMBDA x : x # y)
    IN  [k \in 1..Len(filtered) |-> <<filtered[k], y, Get(data, filtered[k], y)>>]

\* iterator{table}: m_x = 0, m_y = 1, m_prev_triangular = 0
IterBegin == [m_x |-> 0, m_y |-> 1, m_prev_triangular |-> 0]

\* operator++ advancing m_prev_triangular by the old m_x instead of m_y
IterIncr_PrevByX(i) ==
    IF i.m_x + 1 = i.m_y
    THEN [m_x |-> 0, m_y |-> i.m_y + 1,
          m_prev_triangular |-> i.m_prev_triangular + i.m_x]
    ELSE [i EXCEPT !.m_x = i.m_x + 1]

\* operator++ testing m_x against m_y before the increment
IterIncr_LateWrap(i) ==
    IF i.m_x = i.m_y
    THEN [m_x |-> 0, m_y |-> i.m_y + 1,
          m_prev_triangular |-> i.m_prev_triangular + i.m_y]
    ELSE [i EXCEPT !.m_x = i.m_x + 1]

\* iterator::operator++
IterIncr(i) ==
    IF i.m_x + 1 = i.m_y
    THEN [m_x |-> 0, m_y |-> i.m_y + 1,
          m_prev_triangular |-> i.m_prev_triangular + i.m_y]
    ELSE [i EXCEPT !.m_x = i.m_x + 1]

\* iterator::operator== against end()
IterAtEnd(i, w) == i.m_y = w

\* iterator::operator*: the RUNTIME_ASSERT that fails, if any
DerefErr(i, w) == IF i.m_y < w THEN "none" ELSE "m_y < m_table->m_width"

\* the offset without the rows before the cell's
IterOffset_NoRow(i) == i.m_x

\* iterator::operator*: flat offset of the referenced cell (0-based)
IterOffset(i) == i.m_prev_triangular + i.m_x

\* the iterator reached from begin() by k increments
RECURSIVE IterAt(_)
IterAt(k) == IF k = 0 THEN IterBegin ELSE IterIncr(IterAt(k - 1))

NoIter == [m_x |-> 0, m_y |-> 0, m_prev_triangular |-> 0]
NoResult == [op |-> "none", err |-> "none", val |-> <<>>]

\* ------------------------------------------------------------ table tests
TableRest ==
    /\ main_pc = "test" /\ UNCHANGED <<main_vars, mst_vars, heap_vars>>

\* triangular_table<int> table{ n, val }
TableConstruct ==
    /\ ~constructed
    /\ \E n \in 0..MaxWidth, val \in 0..MaxVal :
        IF CtorErr(n) = "none"
        THEN /\ m_width' = n
             /\ m_data' = NewData(n, val)
             /\ constructed' = TRUE
             /\ result' = [op |-> "new", err |-> "none", val |-> <<n, val>>]
        ELSE /\ UNCHANGED table_vars
             /\ result' = [op |-> "new", err |-> CtorErr(n), val |-> <<n, val>>]
    /\ UNCHANGED <<it, visited, first_run>>
    /\ TableRest

\* no loop over the table is under way
OutsideLoop == it = NoIter \/ IterAtEnd(it, m_width)

\* table(x, y), as the tests call it: outside the loops over [begin(), end())
TableGet ==
    /\ constructed
    /\ OutsideLoop
    /\ \E x \in 0..m_width, y \in 0..m_width :
        result' = IF GetErr(m_width, x, y) = "none"
                  THEN [op |-> "get", err |-> "none", val |-> <<x, y, Get(m_data, x, y)>>]
                  ELSE [op |-> "get", err |-> GetErr(m_width, x, y), val |-> <<x, y>>]
    /\ UNCHANGED <<table_vars, it, visited, first_run>>
    /\ TableRest

\* table.row(y), collected into a vector
TableRow ==
    /\ constructed
    /\ OutsideLoop
    /\ \E y \in 0..m_width :
        result' = IF RowErr(m_width, y) = "none"
                  THEN [op |-> "row", err |-> "none", val |-> <<y, Row(m_width, m_data, y)>>]
                  ELSE [op |-> "row", err |-> RowErr(m_width, y), val |-> <<y>>]
    /\ UNCHANGED <<table_vars, it, visited, first_run>>
    /\ TableRest

\* table.begin()
TableBegin ==
    /\ constructed
    /\ it' = IterBegin
    /\ visited' = <<>>
    /\ first_run' = IF it # NoIter /\ IterAtEnd(it, m_width) /\ first_run = <<"none">>
                    THEN visited ELSE first_run
    /\ UNCHANGED <<table_vars, result>>
    /\ TableRest

\* one pass of a loop over [begin(), end()): *it, a store through the
\* reference (of the old value again, when the loop only reads), ++it
TableIterStep ==
    /\ constructed
    /\ it # NoIter
    /\ ~IterAtEnd(it, m_width)
    /\ DerefErr(it, m_width) = "none"
    /\ \E v \in 0..MaxVal :
        /\ m_data' = [m_data EXCEPT ![IterOffset(it) + 1] = v]
        /\ result' = [op |-> "deref", err |-> "none",
                      val |-> <<it.m_x, it.m_y, m_data'[IterOffset(it) + 1]>>]
    /\ visited' = Append(visited, <<it.m_x, it.m_y>>)
    /\ it' = IterIncr(it)
    /\ UNCHANGED <<m_width, constructed, first_run>>
    /\ TableRest

InitTable ==
    /\ m_width = 0 /\ m_data = <<>> /\ constructed = FALSE
    /\ it = NoIter /\ visited = <<>> /\ first_run = <<"none">> /\ result = NoResult
    /\ main_pc = "test" /\ filenames = 0 /\ histograms = 0 /\ mats = <<>> /\ in_flight = {}
    /\ computed = {} /\ ret = 0
    /\ pc = "none" /\ size = 0 /\ ndebug = FALSE
    /\ t = [m_parent |-> <<>>, m_adjacency_list |-> <<>>, m_num_edges |-> 0]
    /\ candidates = <<>> /\ just_inserted_index = 0 /\ just_inserted = 0
    /\ min_entry = 0 /\ inserted = <<>> /\ order = <<>> /\ stack = <<>> /\ error = "none"
    /\ hpc = "none" /\ heap = {} /\ ht = t /\ herror = "none"

NextTable ==
    \/ TableConstruct
    \/ TableGet
    \/ TableRow
    \/ TableBegin
    \/ TableIterStep

SpecTable == InitTable /\ [][NextTable]_vars

\* ------------------------------------------------------------------- tree
\* tree::tree(size)
NewTree(n) ==
    [m_parent |-> [k \in 1..n |-> FALSE],
     m_adjacency_list |-> [k \in 1..n |-> <<>>],
     m_num_edges |-> 0]

\* tree::contains(node)
contains(tr, node) == node = 0 \/ tr.m_parent[node + 1]

\* tree::try_insert(parent, child): the RUNTIME_ASSERT that fails, if any
TryInsertErr(tr, nd, parent, child) ==
    IF ~(parent < Len(tr.m_adjacency_list)) THEN "parent < m_adjacency_list.size()"
    ELSE IF ~nd /\ ~(child < Len(tr.m_parent)) THEN "child < m_parent.size()"
    ELSE "none"

\* tree::try_insert(parent, child): the value returned
TryInsertResult(tr, nd, parent, child) == nd \/ ~contains(tr, child)

\* try_insert storing the parent in the child's list
try_insert_Swapped(tr, nd, parent, child) ==
    IF ~TryInsertResult(tr, nd, parent, child) THEN tr
    ELSE [m_parent |-> IF nd THEN tr.m_parent
                       ELSE [tr.m_parent EXCEPT ![child + 1] = TRUE],
          m_adjacency_list |->
              [tr.m_adjacency_list EXCEPT ![child + 1] = Append(@, parent)],
          m_num_edges |-> tr.m_num_edges + 1]

\* tree::try_insert(parent, child): the tree afterwards
try_insert(tr, nd, parent, child) ==
    IF ~TryInsertResult(tr, nd, parent, child) THEN tr
    ELSE [m_parent |-> IF nd THEN tr.m_parent
                       ELSE [tr.m_parent EXCEPT ![child + 1] = TRUE],
          m_adjacency_list |->
              [tr.m_adjacency_list EXCEPT ![parent + 1] = Append(@, child)],
          m_num_edges |-> tr.m_num_edges + 1]

\* tree::children(node)
children(tr, node) == tr.m_adjacency_list[node + 1]

\* ------------------------------------------------------------ compute_mst
\* std::vector<pq_entry> candidates(size) with destination = i
InitCandidates(n) ==
    [k \in 1..n |-> [source |-> 0, destination |-> k - 1, cost |-> TMax]]

\* pop_back() without the swap before it
SwapPop_NoSwap(c, idx) == SubSeq(c, 1, Len(c) - 1)

\* std::swap(candidates[just_inserted_index], candidates.back()); pop_back()
SwapPop(c, idx) ==
    LET swapped == [c EXCEPT ![idx + 1] = c[Len(c)], ![Len(c)] = c[idx + 1]]
    IN  SubSeq(swapped, 1, Len(c) - 1)

\* the scan updating a slot only on a strictly cheaper edge
RECURSIVE Scan_StrictUpdate(_, _, _, _, _, _, _)
Scan_StrictUpdate(w, data, ji, c, k, m, e) ==
    IF k > Len(c) \/ e # "none" THEN [candidates |-> c, min_entry |-> m, err |-> e]
    ELSE LET dst == c[k].destination
             ge == GetErr(w, ji, dst)
             cost_to_just_inserted == Get(data, ji, dst)
             upd == IF cost_to_just_inserted < c[k].cost
                    THEN [c EXCEPT ![k] = [source |-> ji, destination |-> dst,
                                           cost |-> cost_to_just_inserted]]
                    ELSE c
             min_cost == IF m = 0 THEN TMax ELSE upd[m].cost
             m2 == IF cost_to_just_inserted <= min_cost THEN k ELSE m
         IN  IF ge # "none" THEN [candidates |-> c, min_entry |-> m, err |-> ge]
             ELSE Scan_StrictUpdate(w, data, ji, upd, k + 1, m2, "none")

\* the for loop over candidates from slot k on: c is the array so far, m the
\* slot min_entry points at (0: dummy_entry), e the first failed assertion
RECURSIVE Scan(_, _, _, _, _, _, _)
Scan(w, data, ji, c, k, m, e) ==
    IF k > Len(c) \/ e # "none" THEN [candidates |-> c, min_entry |-> m, err |-> e]
    ELSE LET dst == c[k].destination
             ge == GetErr(w, ji, dst)
             cost_to_just_inserted == Get(data, ji, dst)
             upd == IF cost_to_just_inserted <= c[k].cost
                    THEN [c EXCEPT ![k] = [source |-> ji, destination |-> dst,
                                           cost |-> cost_to_just_inserted]]
                    ELSE c
             min_cost == IF m = 0 THEN TMax ELSE upd[m].cost
             m2 == IF cost_to_just_inserted <= min_cost THEN k ELSE m
         IN  IF ge # "none" THEN [candidates |-> c, min_entry |-> m, err |-> ge]
             ELSE Scan(w, data, ji, upd, k + 1, m2, "none")

\* total cost of the edges stored in a tree
RECURSIVE SumSeq(_)
SumSeq(s) == IF s = <<>> THEN 0 ELSE Head(s) + SumSeq(Tail(s))

\* the size check letting a single node through
ComputeMstErr_AcceptsOne(sz) == IF sz >= 1 THEN "none" ELSE "size >= 2"

\* compute_mst: RUNTIME_ASSERT(size >= 2)
ComputeMstErr(sz) == IF sz >= 2 THEN "none" ELSE "size >= 2"

\* cv::compareHist(lhs.mat, rhs.mat, cv::HISTCMP_BHATTACHARYYA): a distance
\* that depends on the two histograms only; a histogram stands as a number
compute_histogram_diff(lhs, rhs) == IF lhs > rhs THEN lhs - rhs ELSE rhs - lhs

\* ---------------------------------------------------------------- actions
TestRest == UNCHANGED <<test_vars, heap_vars>>

\* main: listing the source directory
MainListdir ==
    /\ main_pc = "listdir"
    /\ \E f \in 0..MaxItems :
        /\ filenames' = f
        /\ IF f = 0 THEN main_pc' = "exit" /\ ret' = 0
                    ELSE main_pc' = "histograms" /\ ret' = ret
    /\ UNCHANGED <<histograms, mats, in_flight, computed, table_vars, mst_vars>>
    /\ TestRest

\* main: computing the histograms and dropping the empty ones
MainHistograms ==
    /\ main_pc = "histograms"
    /\ \E h \in 0..filenames :
        /\ histograms' = h
        /\ mats' \in [1..h -> 0..MaxHist]
        /\ IF h = 0 THEN main_pc' = "exit" /\ ret' = -1
           ELSE IF h = 1 THEN main_pc' = "exit" /\ ret' = 0
           ELSE main_pc' = "diff_table" /\ ret' = ret
    /\ UNCHANGED <<filenames, in_flight, computed, table_vars, mst_vars>>
    /\ TestRest

\* main: triangular_table<double> diff_table{ histograms.size() }
MainDiffTable ==
    /\ main_pc = "diff_table"
    /\ IF CtorErr(histograms) = "none"
       THEN /\ m_width' = histograms
            /\ m_data' = NewData(histograms, 0)
            /\ constructed' = TRUE
            /\ main_pc' = "fill"
            /\ error' = error
       ELSE /\ UNCHANGED table_vars
            /\ main_pc' = "terminated"
            /\ error' = CtorErr(histograms)
    /\ UNCHANGED <<filenames, histograms, mats, in_flight, computed, ret>>
    /\ UNCHANGED <<pc, size, ndebug, inserted, t, candidates, just_inserted_index,
                   just_inserted, min_entry, order, stack>>
    /\ TestRest

\* std::for_each(par, begin, end, compute_diff) hands the element at a
\* position to a worker: each position once, in no order, any number at a time
WorkerTake ==
    /\ main_pc = "fill"
    /\ \E k \in (0..(DataSize(m_width) - 1)) \ (in_flight \cup computed) :
        in_flight' = in_flight \cup {k}
    /\ UNCHANGED <<main_pc, filenames, histograms, mats, computed, ret, table_vars, mst_vars>>
    /\ TestRest

\* one worker's compute_diff(*it): the dereference, the assertion on the
\* coordinate and the store through the reference
ComputeDiff ==
    /\ main_pc = "fill"
    /\ \E k \in in_flight :
        LET kvp == IterAt(k)
            x == kvp.m_x
            y == kvp.m_y
        IN  IF DerefErr(kvp, m_width) # "none"
            THEN /\ error' = DerefErr(kvp, m_width) /\ main_pc' = "terminated"
                 /\ UNCHANGED <<m_data, in_flight, computed>>
            ELSE IF x = y
            THEN /\ error' = "x != y" /\ main_pc' = "terminated"
                 /\ UNCHANGED <<m_data, in_flight, computed>>
            ELSE /\ m_data' = [m_data EXCEPT ![IterOffset(kvp) + 1] =
                                   compute_histogram_diff(mats[x + 1], mats[y + 1])]
                 /\ in_flight' = in_flight \ {k}
                 /\ computed' = computed \cup {k}
                 /\ UNCHANGED <<error, main_pc>>
    /\ UNCHANGED <<m_width, constructed, filenames, histograms, mats, ret>>
    /\ UNCHANGED <<pc, size, ndebug, inserted, t, candidates, just_inserted_index,
                   just_inserted, min_entry, order, stack>>
    /\ TestRest

\* main: for_each has returned; compute_mst(histograms.size(), diff_table)
MainComputeMst ==
    /\ main_pc = "fill"
    /\ in_flight = {}
    /\ computed = 0..(DataSize(m_width) - 1)
    /\ main_pc' = "mst"
    /\ pc' = "compute_mst"
    /\ size' = histograms
    /\ UNCHANGED <<filenames, histograms, mats, in_flight, computed, ret, table_vars>>
    /\ UNCHANGED <<ndebug, inserted, t, candidates, just_inserted_index,
                   just_inserted, min_entry, order, stack, error>>
    /\ TestRest

\* compute_mst: the size check, the tree and the candidate array
ComputeMstBegin ==
    /\ pc = "compute_mst"
    /\ IF ComputeMstErr(size) # "none"
       THEN /\ error' = ComputeMstErr(size)
            /\ pc' = "failed"
            /\ UNCHANGED <<t, candidates, just_inserted_index, just_inserted, inserted>>
       ELSE /\ t' = NewTree(size)
            /\ candidates' = InitCandidates(size)
            /\ inserted' = <<0>>
            /\ just_inserted_index' = 0
            /\ just_inserted' = 0
            /\ pc' = "mst_loop"
            /\ error' = error
    /\ UNCHANGED <<size, ndebug, min_entry, order, stack, table_vars, main_vars>>
    /\ TestRest

\* compute_mst: try_insert(min_entry->source, min_entry->destination), the
\* assertion on its result, and the two just_inserted assignments
InsertMin(s, src, dst) ==
    IF TryInsertErr(t, ndebug, src, dst) # "none"
    THEN /\ error' = TryInsertErr(t, ndebug, src, dst) /\ pc' = "failed"
         /\ UNCHANGED <<t, just_inserted_index, just_inserted, inserted>>
    ELSE IF ~TryInsertResult(t, ndebug, src, dst)
    THEN /\ error' = "insert_result" /\ pc' = "failed"
         /\ UNCHANGED <<t, just_inserted_index, just_inserted, inserted>>
    ELSE /\ t' = try_insert(t, ndebug, src, dst)
         /\ inserted' = Append(inserted, dst)
         /\ just_inserted_index' = s.min_entry - 1
         /\ just_inserted' = dst
         /\ pc' = pc /\ error' = error

\* compute_mst: one pass of the while loop; the fields of dummy_entry are
\* never set, so an insert of dummy_entry may see any values
MstIter ==
    /\ pc = "mst_loop"
    /\ t.m_num_edges < size - 1
    /\ LET s == Scan(m_width, m_data, just_inserted,
                     SwapPop(candidates, just_inserted_index), 1, 0, "none")
       IN  /\ candidates' = s.candidates
           /\ min_entry' = s.min_entry
           /\ IF s.err # "none"
              THEN /\ error' = s.err /\ pc' = "failed"
                   /\ UNCHANGED <<t, just_inserted_index, just_inserted, inserted>>
              ELSE IF s.min_entry # 0
              THEN InsertMin(s, s.candidates[s.min_entry].source,
                             s.candidates[s.min_entry].destination)
              ELSE \E dummy_source \in 0..size, dummy_destination \in 0..size :
                      InsertMin(s, dummy_source, dummy_destination)
    /\ UNCHANGED <<size, ndebug, order, stack, table_vars, main_vars>>
    /\ TestRest

\* compute_mst: the loop ends and the tree is returned
ComputeMstReturn ==
    /\ pc = "mst_loop"
    /\ ~(t.m_num_edges < size - 1)
    /\ pc' = "mst_done"
    /\ UNCHANGED <<size, ndebug, inserted, t, candidates, just_inserted_index, just_inserted,
                   min_entry, order, stack, error, table_vars, main_vars>>
    /\ TestRest

\* main calls pre_order(mst): the empty order and the stack holding the root
PreOrderBegin ==
    /\ pc = "mst_done"
    /\ main_pc \in {"mst", "call"}
    /\ main_pc' = IF main_pc = "mst" THEN "pre_order" ELSE main_pc
    /\ order' = <<>>
    /\ stack' = <<0>>
    /\ pc' = "pre_order_loop"
    /\ UNCHANGED <<size, ndebug, inserted, t, candidates, just_inserted_index, just_inserted,
                   min_entry, error, table_vars, filenames, histograms, mats,
                   in_flight, computed, ret>>
    /\ TestRest

\* the children pushed in forward order
Reverse_Forward(s) == s

\* the reversed range stopping one child short
Reverse_OffByOne(s) == [k \in 1..(Len(s) - 1) |-> s[Len(s) + 1 - k]]

\* reverse(children(curr_node))
Reverse(s) == [k \in 1..Len(s) |-> s[Len(s) + 1 - k]]

\* pre_order: one pass of the while loop
PreOrderStep ==
    /\ pc = "pre_order_loop"
    /\ stack # <<>>
    /\ LET curr_node == stack[Len(stack)]
           rest == SubSeq(stack, 1, Len(stack) - 1)
       IN  IF ~(curr_node < Len(t.m_adjacency_list))
           THEN /\ error' = "node < m_adjacency_list.size()"
                /\ pc' = "failed"
                /\ order' = Append(order, curr_node)
                /\ stack' = rest
           ELSE /\ order' = Append(order, curr_node)
                /\ stack' = rest \o Reverse(children(t, curr_node))
                /\ pc' = pc /\ error' = error
    /\ UNCHANGED <<size, ndebug, inserted, t, candidates, just_inserted_index, just_inserted,
                   min_entry, table_vars, main_vars>>
    /\ TestRest

\* pre_order: the stack is empty, the length check, the order is returned
PreOrderReturn ==
    /\ pc = "pre_order_loop"
    /\ stack = <<>>
    /\ IF Len(order) = t.m_num_edges + 1
       THEN pc' = "pre_order_done" /\ error' = error
       ELSE pc' = "failed" /\ error' = "order.size() == (mst.num_edges() + 1)"
    /\ UNCHANGED <<size, ndebug, inserted, t, candidates, just_inserted_index, just_inserted,
                   min_entry, order, stack, table_vars, main_vars>>
    /\ TestRest

\* main: the links are created in sort order and main returns
MainOutput ==
    /\ main_pc = "pre_order"
    /\ pc = "pre_order_done"
    /\ main_pc' = "exit"
    /\ ret' = 0
    /\ UNCHANGED <<filenames, histograms, mats, in_flight, computed, table_vars, mst_vars>>
    /\ TestRest

\* an exception leaves compute_mst or pre_order and reaches the caller
Throw ==
    /\ main_pc \in {"mst", "pre_order", "call"}
    /\ pc = "failed"
    /\ main_pc' = "terminated"
    /\ UNCHANGED <<filenames, histograms, mats, in_flight, computed, ret, table_vars, mst_vars>>
    /\ TestRest

NoTree == [m_parent |-> <<>>, m_adjacency_list |-> <<>>, m_num_edges |-> 0]

\* main is started, in a debug or a release build
InitMain ==
    /\ m_width = 0 /\ m_data = <<>> /\ constructed = FALSE
    /\ it = NoIter /\ visited = <<>> /\ first_run = <<"none">> /\ result = NoResult
    /\ main_pc = "listdir" /\ filenames = 0 /\ histograms = 0 /\ mats = <<>> /\ in_flight = {}
    /\ computed = {} /\ ret = 0
    /\ pc = "none" /\ size = 0 /\ ndebug \in BOOLEAN
    /\ t = NoTree
    /\ candidates = <<>> /\ just_inserted_index = 0 /\ just_inserted = 0
    /\ min_entry = 0 /\ inserted = <<>> /\ order = <<>> /\ stack = <<>> /\ error = "none"
    /\ hpc = "none" /\ heap = {} /\ ht = NoTree /\ herror = "none"

\* cost tables of the worked examples: d(0,1)=5, d(0,2)=1, d(1,2)=9 and
\* d(0,1)=1, d(0,2)=4, d(1,2)=1, d(0,3)=4, d(1,3)=4, d(2,3)=1
Example3 == <<5, 1, 9>>
Example4 == <<1, 4, 1, 4, 4, 1>>

\* a table whose tree has the shape of the linearizer example, 0 -> [1, 3]
\* and 1 -> [2]: d(0,1)=0, d(0,2)=2, d(1,2)=0, d(0,3)=1, d(1,3)=2, d(2,3)=2
Forked4 == <<0, 2, 0, 1, 2, 2>>

\* a table on which, once node 2 is in the tree, node 1 (at cost 0 from the
\* root) is scanned after node 3 (at cost 1 from node 2) and is farther from
\* node 2: d(0,1)=0, d(0,2)=0, d(1,2)=2, d(0,3)=1, d(1,3)=0, d(2,3)=1
Shadowed4 == <<0, 0, 2, 1, 0, 1>>

\* a 4-node table with a tie in the second scan: nodes 3 and 1 are both at
\* cost 0 from the tree {0, 2}, node 3 is scanned first and node 1 is at cost
\* 1 from node 2: d(0,1)=0, d(0,2)=0, d(1,2)=1, d(0,3)=0, d(1,3)=0, d(2,3)=0
Tied4 == <<0, 0, 1, 0, 0, 0>>

\* compute_mst and pre_order are called on their own: on any filled table,
\* with its width or with a size no spanning tree exists for, or on one of
\* the 3- and 4-node tables above
InitCall ==
    /\ \/ \E n \in 1..MaxN :
            /\ m_width = n
            /\ m_data \in [1..DataSize(n) -> 0..MaxW]
            /\ size \in {0, 1, n}
       \/ m_width = 3 /\ m_data = Example3 /\ size = 3
       \/ m_width = 4 /\ m_data \in {Example4, Forked4, Shadowed4, Tied4} /\ size = 4
    /\ constructed = TRUE
    /\ it = NoIter /\ visited = <<>> /\ first_run = <<"none">> /\ result = NoResult
    /\ main_pc = "call" /\ filenames = 0 /\ histograms = 0 /\ mats = <<>> /\ in_flight = {}
    /\ computed = {} /\ ret = 0
    /\ pc = "compute_mst" /\ ndebug \in BOOLEAN
    /\ t = NoTree
    /\ candidates = <<>> /\ just_inserted_index = 0 /\ just_inserted = 0
    /\ min_entry = 0 /\ inserted = <<>> /\ order = <<>> /\ stack = <<>> /\ error = "none"
    /\ hpc = "none" /\ heap = {} /\ ht = NoTree /\ herror = "none"

Init == InitMain \/ InitCall

Next ==
    \/ MainListdir
    \/ MainHistograms
    \/ MainDiffTable
    \/ WorkerTake
    \/ ComputeDiff
    \/ MainComputeMst
    \/ ComputeMstBegin
    \/ MstIter
    \/ ComputeMstReturn
    \/ PreOrderBegin
    \/ PreOrderStep
    \/ PreOrderReturn
    \/ MainOutput
    \/ Throw

Spec == Init /\ [][Next]_vars


\* ------------------------------------------- compute_mst on a priority queue
\* tree::no_parent, the largest std::size_t: no node has this index
no_parent == -1

\* tree::tree(size) of img_sort.cpp: the RUNTIME_ASSERT that fails, if any
HeapTreeErr(n) == IF n > 0 THEN "none" ELSE "size > 0"

\* tree::tree(size) of img_sort.cpp
HeapNewTree(n) ==
    [m_parent |-> [k \in 1..n |-> no_parent],
     m_adjacency_list |-> [k \in 1..n |-> <<>>],
     m_num_edges |-> 0]

\* tree::contains(node) of img_sort.cpp
HeapContains(tr, node) == node = 0 \/ tr.m_parent[node + 1] # no_parent

\* tree::try_insert(parent, child) of img_sort.cpp: the failed assertion, if any
HeapTryInsertErr(tr, parent, child) ==
    IF ~(parent < Len(tr.m_adjacency_list)) THEN "parent < m_adjacency_list.size()"
    ELSE IF ~(child < Len(tr.m_parent)) THEN "child < m_parent.size()"
    ELSE "none"

\* tree::try_insert(parent, child) of img_sort.cpp: the tree afterwards
HeapTryInsert(tr, parent, child) ==
    IF HeapContains(tr, child) THEN tr
    ELSE [m_parent |-> [tr.m_parent EXCEPT ![child + 1] = parent],
          m_adjacency_list |->
              [tr.m_adjacency_list EXCEPT ![parent + 1] = Append(@, child)],
          m_num_edges |-> tr.m_num_edges + 1]

\* auto [dst, src] = p.first; pq_entry(src, dst, p.second) for the elements
\* p of a row
RowEntries(row) ==
    {[source |-> row[k][2], destination |-> row[k][1], weight |-> row[k][3]] :
        k \in 1..Len(row)}

\* heap.top(): an entry no other entry is below in weight; which one of
\* several equal entries depends on the layout of the queue
HeapTop(h) == {e \in h : \A o \in h : e.weight <= o.weight}

\* the tree and the entries of row(0)
HeapBegin ==
    /\ main_pc = "call" /\ pc \in {"mst_done", "failed"} /\ hpc = "none"
    /\ IF HeapTreeErr(size) # "none"
       THEN /\ herror' = HeapTreeErr(size) /\ hpc' = "heap_failed"
            /\ UNCHANGED <<heap, ht>>
       ELSE IF RowErr(m_width, 0) # "none"
       THEN /\ herror' = RowErr(m_width, 0) /\ hpc' = "heap_failed"
            /\ ht' = HeapNewTree(size) /\ heap' = heap
       ELSE /\ ht' = HeapNewTree(size)
            /\ heap' = RowEntries(Row(m_width, m_data, 0))
            /\ hpc' = "heap_loop" /\ herror' = herror
    /\ UNCHANGED <<table_vars, test_vars, main_vars, mst_vars>>

\* one pass of the while loop: top(), pop(), try_insert and the row of the
\* inserted node; top() of an empty queue is undefined
HeapStep ==
    /\ hpc = "heap_loop"
    /\ ht.m_num_edges + 1 < size
    /\ IF heap = {}
       THEN /\ hpc' = "heap_undefined"
            /\ UNCHANGED <<heap, ht, herror>>
       ELSE \E curr \in HeapTop(heap) :
            IF HeapTryInsertErr(ht, curr.source, curr.destination) # "none"
            THEN /\ herror' = HeapTryInsertErr(ht, curr.source, curr.destination)
                 /\ hpc' = "heap_failed"
                 /\ heap' = heap \ {curr} /\ ht' = ht
            ELSE IF HeapContains(ht, curr.destination)
            THEN /\ heap' = heap \ {curr}
                 /\ UNCHANGED <<hpc, ht, herror>>
            ELSE IF RowErr(m_width, curr.destination) # "none"
            THEN /\ herror' = RowErr(m_width, curr.destination)
                 /\ hpc' = "heap_failed"
                 /\ ht' = HeapTryInsert(ht, curr.source, curr.destination)
                 /\ heap' = heap \ {curr}
            ELSE /\ ht' = HeapTryInsert(ht, curr.source, curr.destination)
                 /\ heap' = (heap \ {curr}) \cup
                       {e \in RowEntries(Row(m_width, m_data, curr.destination)) :
                           ~HeapContains(ht', e.destination)}
                 /\ UNCHANGED <<hpc, herror>>
    /\ UNCHANGED <<table_vars, test_vars, main_vars, mst_vars>>

\* the loop ends and the tree is returned
HeapReturn ==
    /\ hpc = "heap_loop"
    /\ ~(ht.m_num_edges + 1 < size)
    /\ hpc' = "heap_done"
    /\ UNCHANGED <<heap, ht, herror, table_vars, test_vars, main_vars, mst_vars>>

\* both compute_mst are called on the same table, the array-based one first
NextHeap ==
    \/ ComputeMstBegin
    \/ MstIter
    \/ ComputeMstReturn
    \/ HeapBegin
    \/ HeapStep
    \/ HeapReturn

SpecHeap == InitCall /\ [][NextHeap]_vars

\* ------------------------------------------------------------- properties
\* the edges of a tree, as <<parent, child>> pairs, in adjacency-list order
RECURSIVE EdgesFrom(_, _)
EdgesFrom(tr, node) ==
    IF node >= Len(tr.m_adjacency_list) THEN <<>>
    ELSE [k \in 1..Len(children(tr, node)) |-> <<node, children(tr, node)[k]>>]
         \o EdgesFrom(tr, node + 1)

Edges(tr) == EdgesFrom(tr, 0)

\* sum of the table's cost over the edges of a tree
TreeCost(tr) ==
    LET e == Edges(tr)
    IN  SumSeq([k \in 1..Len(e) |-> Get(m_data, e[k][1], e[k][2])])

\* the k-th ancestor of v under the parent map p (node 0 is its own parent)
RECURSIVE Ancestor(_, _, _)
Ancestor(p, v, k) ==
    IF k = 0 \/ v = 0 THEN v ELSE Ancestor(p, p[v], k - 1)

\* every spanning tree of the complete graph on 0..n-1, as a parent map
SpanningTrees(n) ==
    {p \in [1..(n - 1) -> 0..(n - 1)] : \A v \in 1..(n - 1) : Ancestor(p, v, n) = 0}

ParentCost(n, p) ==
    SumSeq([v \in 1..(n - 1) |-> Get(m_data, p[v], v)])

\* weight of a minimum spanning tree of the table's complete graph
MstWeight(n) ==
    CHOOSE c \in {ParentCost(n, p) : p \in SpanningTrees(n)} :
        \A q \in SpanningTrees(n) : c <= ParentCost(n, q)

Returned == pc \in {"mst_done", "pre_order_loop", "pre_order_done"}

\* C1: the tree compute_mst returns has the total edge cost of a minimum
\* spanning tree of the complete graph the table describes
C1_MstOptimal ==
    (Returned /\ size >= 2) => TreeCost(t) = MstWeight(size)

\* how often node v is the child of an edge
ChildCount(e, v) == Cardinality({k \in 1..Len(e) : e[k][2] = v})

\* C2: the returned tree has exactly n-1 edges, node 0 is never a child and
\* every node 1..n-1 is a child exactly once, in debug and release builds
C2_TreeShape ==
    (Returned /\ size >= 2) =>
        LET e == Edges(t)
        IN  /\ t.m_num_edges = size - 1
            /\ Len(e) = size - 1
            /\ ChildCount(e, 0) = 0
            /\ \A v \in 1..(size - 1) : ChildCount(e, v) = 1

C2_Witness ==
    pc = "mst_done" /\ main_pc = "call" /\ size >= 3 /\ ndebug
        /\ Len(children(t, 0)) = 1

LengthCheck == "order.size() == (mst.num_edges() + 1)"

\* C3: pre_order returns a permutation of 0..n-1 of length num_edges()+1, and
\* its length check never fails
C3_Permutation ==
    /\ error # LengthCheck
    /\ (pc = "pre_order_loop" /\ stack = <<>>) => Len(order) = t.m_num_edges + 1
    /\ pc = "pre_order_done" =>
        /\ Len(order) = size
        /\ Len(order) = t.m_num_edges + 1
        /\ \A v \in 0..(size - 1) : Cardinality({k \in 1..Len(order) : order[k] = v}) = 1

C3_Witness ==
    pc = "pre_order_done" /\ main_pc = "call" /\ size >= 3
        /\ Len(children(t, 0)) = 2

\* the pre-order of the subtree of a node: the node, then the subtrees of its
\* children in adjacency-list order
RECURSIVE SubtreeOrder(_, _, _)
RECURSIVE ForestOrder(_, _, _)
SubtreeOrder(tr, node, fuel) ==
    IF fuel = 0 THEN <<node>>
    ELSE <<node>> \o ForestOrder(tr, children(tr, node), fuel - 1)
ForestOrder(tr, nodes, fuel) ==
    IF nodes = <<>> THEN <<>>
    ELSE SubtreeOrder(tr, Head(nodes), fuel) \o ForestOrder(tr, Tail(nodes), fuel)

\* position of a node in the order
Pos(v) == CHOOSE k \in 1..Len(order) : order[k] = v

\* C4: pre_order emits the pre-order of the tree: root first, parents before
\* children, siblings in insertion order, each subtree contiguous; the two
\* worked examples come out as [0,1,2,3] and [0,2,1]
C4_PreOrder ==
    pc = "pre_order_done" =>
        /\ order[1] = 0
        /\ order = SubtreeOrder(t, 0, size)
        /\ LET e == Edges(t)
           IN  \A k \in 1..Len(e) : Pos(e[k][1]) < Pos(e[k][2])
        /\ \A v \in 0..(size - 1) : \A a, b \in 1..Len(children(t, v)) :
              a < b => Pos(children(t, v)[a]) < Pos(children(t, v)[b])
        /\ t.m_adjacency_list = <<<<1, 3>>, <<2>>, <<>>, <<>>>> => order = <<0, 1, 2, 3>>
        /\ (m_data = Example3 /\ size = 3) =>
              t.m_adjacency_list = <<<<2, 1>>, <<>>, <<>>>> /\ order = <<0, 2, 1>>

C4_Witness ==
    pc = "pre_order_done" /\ t.m_adjacency_list = <<<<1, 3>>, <<2>>, <<>>, <<>>>>
        /\ order = <<0, 1, 2, 3>>

\* the cell an unordered pair lo < hi is stored in (0-based)
PairCell(lo, hi) == (hi * (hi - 1)) \div 2 + lo

\* C5: both coordinate orders of a pair resolve to the same cell, so
\* get(i,j) = get(j,i) in every state of a table
C5_Symmetric ==
    constructed =>
        \A i, j \in 0..(m_width - 1) : i # j =>
            /\ GetErr(m_width, i, j) = "none"
            /\ GetOffset(i, j) = GetOffset(j, i)
            /\ Get(m_data, i, j) = Get(m_data, j, i)

C5_Witness ==
    /\ constructed /\ m_width >= 3
    /\ result.op = "get" /\ result.err = "none"
    /\ result.val[1] > result.val[2]
    /\ \E a, b \in 1..Len(m_data) : m_data[a] # m_data[b]

\* C6 (state part): a fresh table returns the fill value everywhere, the value
\* stored through an iterator entry is what get returns for its pair, the
\* iterator's offset is get's offset, distinct pairs have distinct cells, and
\* every offset is inside the storage
C6_State ==
    constructed =>
        /\ Len(m_data) = (m_width * (m_width - 1)) \div 2
        /\ result.op = "new" =>
              \A i, j \in 0..(m_width - 1) : i # j => Get(m_data, i, j) = result.val[2]
        /\ result.op = "deref" =>
              /\ Get(m_data, result.val[1], result.val[2]) = result.val[3]
              /\ Get(m_data, result.val[2], result.val[1]) = result.val[3]
        /\ (it # NoIter /\ ~IterAtEnd(it, m_width)) =>
              IterOffset(it) = GetOffset(it.m_x, it.m_y)
        /\ \A i, j \in 0..(m_width - 1) : i < j =>
              /\ GetOffset(i, j) < (m_width * (m_width - 1)) \div 2
              /\ GetOffset(i, j) >= 0
              /\ \A k, l \in 0..(m_width - 1) :
                    (k < l /\ <<k, l>> # <<i, j>>) => GetOffset(k, l) # GetOffset(i, j)

\* C6 (step part): a step through the iterator entry of a pair leaves the
\* value of every other pair as it was
C6_Step ==
    (constructed /\ result'.op = "deref") =>
        \A i, j \in 0..(m_width - 1) :
            (i # j /\ {i, j} # {result'.val[1], result'.val[2]}) =>
                Get(m_data', i, j) = Get(m_data, i, j)

\* C6: the table is a map from unordered pairs to values
C6_PairMap == [](C6_State) /\ [][C6_Step]_vars

C6_Witness ==
    /\ constructed /\ m_width >= 3
    /\ result.op = "deref" /\ result.val[2] = 2
    /\ \E a, b \in 1..Len(m_data) : m_data[a] # m_data[b]

\* the pairs with larger coordinate y, x ascending
RowPairs(y) == [k \in 1..y |-> <<k - 1, y>>]

\* all pairs x < y < n, y ascending and x ascending within y
RECURSIVE PairsUpTo(_)
PairsUpTo(y) == IF y < 1 THEN <<>> ELSE PairsUpTo(y - 1) \o RowPairs(y)

\* C7: a run from begin() to end() visits the n(n-1)/2 pairs once each in the
\* order (0,1),(0,2),(1,2),(0,3),..., nothing for n = 1, and a second run
\* visits the same sequence
C7_IterationOrder ==
    (constructed /\ it # NoIter) =>
        /\ Len(visited) <= (m_width * (m_width - 1)) \div 2
        /\ visited = SubSeq(PairsUpTo(m_width - 1), 1, Len(visited))
        /\ IterAtEnd(it, m_width) <=> Len(visited) = (m_width * (m_width - 1)) \div 2
        /\ IterAtEnd(it, m_width) => visited = PairsUpTo(m_width - 1)
        /\ (IterAtEnd(it, m_width) /\ first_run # <<"none">>) => visited = first_run
        /\ m_width = 1 => visited = <<>> /\ IterAtEnd(it, m_width)

C7_Witness ==
    /\ constructed /\ m_width >= 3 /\ it # NoIter /\ IterAtEnd(it, m_width)
    /\ first_run # <<"none">>
    /\ Len(visited) >= 3

\* the k-th x of row y: 0, 1, ... with y left out
RowX(y, k) == IF k - 1 < y THEN k - 1 ELSE k

\* C8: row(y) yields n-1 entries, one per x # y with x ascending, each with
\* the coordinate (x, y) and the value get(x, y); row(0) is empty for n = 1
C8_Row ==
    constructed =>
        \A y \in 0..(m_width - 1) :
            /\ RowErr(m_width, y) = "none"
            /\ Len(Row(m_width, m_data, y)) = m_width - 1
            /\ \A k \in 1..Len(Row(m_width, m_data, y)) :
                LET x == RowX(y, k)
                    cell == IF x < y THEN PairCell(x, y) ELSE PairCell(y, x)
                IN  Row(m_width, m_data, y)[k] = <<x, y, m_data[cell + 1]>>
            /\ (result.op = "row" /\ result.err = "none" /\ result.val[1] = y) =>
                  result.val[2] = Row(m_width, m_data, y)

C8_Witness ==
    /\ constructed /\ m_width >= 3
    /\ result.op = "row" /\ result.err = "none" /\ result.val[1] = 1
    /\ result.val[2][1][3] # result.val[2][2][3]

InvalidSize == "n > 0"
OutOfRange == "x < m_width && y < m_width"
InvalidPair == "x != y"
RowOutOfRange == "y < m_width"

\* C9 (state part): each invalid request ends in the error of its kind and
\* each valid one in a value
C9_State ==
    /\ result.op = "new" =>
          /\ result.val[1] = 0 => result.err = InvalidSize /\ ~constructed
          /\ result.val[1] > 0 => result.err = "none"
    /\ result.op = "get" =>
          /\ (result.val[1] >= m_width \/ result.val[2] >= m_width) =>
                result.err = OutOfRange /\ Len(result.val) = 2
          /\ (result.val[1] < m_width /\ result.val[1] = result.val[2]) =>
                result.err = InvalidPair /\ Len(result.val) = 2
          /\ (result.val[1] < m_width /\ result.val[2] < m_width
                /\ result.val[1] # result.val[2]) => result.err = "none"
    /\ result.op = "row" =>
          /\ result.val[1] >= m_width => result.err = RowOutOfRange /\ Len(result.val) = 1
          /\ result.val[1] < m_width => result.err = "none"

\* C9 (step part): a failed request leaves the table as it was
C9_Step ==
    result'.err # "none" => UNCHANGED table_vars

\* C9: invalid table requests fail with an error and change nothing
C9_Errors == [](C9_State) /\ [][C9_Step]_vars

C9_Witness ==
    constructed /\ m_width >= 2 /\ result.op = "get" /\ result.err = InvalidPair
        /\ result.val[1] = 1

MstInvalidSize == "size >= 2"

\* C10: compute_mst with n < 2 fails on its size check with no tree and no
\* candidate array built, and main only calls it with at least 2 histograms
C10_SizeCheck ==
    /\ (size < 2 /\ pc \notin {"none", "compute_mst"}) =>
          /\ pc = "failed" /\ error = MstInvalidSize
          /\ t = NoTree /\ candidates = <<>> /\ min_entry = 0
    /\ main_pc \in {"mst", "pre_order"} => size >= 2 /\ size = histograms
    /\ main_pc \in {"diff_table", "fill"} => histograms >= 2
    /\ (main_pc = "exit" /\ histograms < 2) => ~constructed /\ pc = "none"

C10_Witness ==
    pc = "failed" /\ size = 1 /\ error = MstInvalidSize /\ main_pc = "terminated"

\* a scan has run and its selection is still in the candidate array
Scanned == pc \in {"mst_loop", "mst_done"} /\ t.m_num_edges >= 1 /\ min_entry # 0

\* C12: the candidate a pass inserts has the least best_known_cost of the
\* candidates of that pass
C12_SelectsMinimum ==
    Scanned =>
        \A k \in 1..Len(candidates) : candidates[min_entry].cost <= candidates[k].cost

\* the nodes that were in the tree while the last scan ran
ScanTree == {inserted[k] : k \in 1..(Len(inserted) - 1)}

\* the least cost between a node and the nodes of a set
MinCostTo(nodes, dst) ==
    CHOOSE c \in {Get(m_data, n, dst) : n \in nodes} :
        \A n \in nodes : c <= Get(m_data, n, dst)

\* the last inserted node of the scan's tree at the least cost from dst
LatestNearest(dst) ==
    LET ks == {k \in 1..(Len(inserted) - 1) :
                  Get(m_data, inserted[k], dst) = MinCostTo(ScanTree, dst)}
    IN  inserted[CHOOSE k \in ks : \A l \in ks : l <= k]

\* C13: after a scan every candidate holds the least cost to the tree, from a
\* source in the tree at that cost, the latest inserted one among equals
C13_BestKnown ==
    Scanned =>
        \A k \in 1..Len(candidates) :
            /\ candidates[k].cost = MinCostTo(ScanTree, candidates[k].destination)
            /\ candidates[k].source \in ScanTree
            /\ Get(m_data, candidates[k].source, candidates[k].destination)
                  = candidates[k].cost
            /\ candidates[k].source = LatestNearest(candidates[k].destination)

C13_Witness ==
    /\ pc = "mst_loop" /\ size = 4 /\ t.m_num_edges = 2 /\ Len(candidates) = 2
    /\ \E k \in 1..2 : candidates[k].source # just_inserted /\ candidates[k].source # 0

\* the nodes of a tree: the root and every child
TreeNodes(tr) == {0} \cup {Edges(tr)[k][2] : k \in 1..Len(Edges(tr))}

AssertionsOfLoop ==
    {"insert_result", "parent < m_adjacency_list.size()", "child < m_parent.size()",
     "x != y", "x < m_width && y < m_width"}

\* C14: at the start of every scan the candidate array has one slot for each
\* node outside the tree and no other, it is not empty, the selection is never
\* dummy_entry, its source is in the tree, and no assertion of the loop fails
C14_CandidateSet ==
    /\ error \notin AssertionsOfLoop
    /\ pc \in {"mst_loop", "mst_done"} => Len(inserted) = t.m_num_edges + 1
    /\ pc = "mst_loop" =>
        LET rest == SwapPop(candidates, just_inserted_index)
        IN  /\ Len(rest) = size - 1 - t.m_num_edges
            /\ {rest[k].destination : k \in 1..Len(rest)}
                  = (0..(size - 1)) \ TreeNodes(t)
            /\ t.m_num_edges < size - 1 => Len(rest) >= 1
            /\ t.m_num_edges >= 1 =>
                  /\ min_entry # 0
                  /\ candidates[min_entry].destination = just_inserted
                  /\ candidates[min_entry].source \in TreeNodes(t) \ {just_inserted}
                  /\ just_inserted_index = min_entry - 1

C14_Witness ==
    pc = "mst_loop" /\ size = 4 /\ t.m_num_edges = 2 /\ ~ndebug /\ just_inserted_index = 0

\* the least best_known_cost of the candidates of the last scan
MinBestKnown ==
    CHOOSE c \in {candidates[k].cost : k \in 1..Len(candidates)} :
        \A k \in 1..Len(candidates) : c <= candidates[k].cost

\* the slots of the last scan at the least best_known_cost
TiedSlots == {k \in 1..Len(candidates) : candidates[k].cost = MinBestKnown}

\* C15: when several candidates of a scan share the least best_known_cost,
\* the one selected is the last of them in the candidate array
C15_TieBreak ==
    (Scanned /\ Cardinality(TiedSlots) >= 2) =>
        /\ min_entry \in TiedSlots
        /\ \A k \in TiedSlots : k <= min_entry

\* the iterator positions of the fill
Positions == 0..(DataSize(m_width) - 1)

\* number of invocations of compute_diff, begun or returned, on the pair {x, y}
Invocations(x, y) ==
    Cardinality({k \in in_flight \cup computed :
                    {IterAt(k).m_x, IterAt(k).m_y} = {x, y}})

\* cost(x, y) of the fill: the distance of the histograms of images x and y
Cost(x, y) == compute_histogram_diff(mats[x + 1], mats[y + 1])

\* main is in or past the fill of diff_table
Filling == main_pc \in {"fill", "mst", "pre_order"} /\ constructed

C11_State ==
    Filling =>
        /\ in_flight \cap computed = {}
        /\ \A x, y \in 0..(m_width - 1) : x < y => Invocations(x, y) <= 1
        /\ \A k1, k2 \in in_flight :
              k1 # k2 => IterOffset(IterAt(k1)) # IterOffset(IterAt(k2))
        /\ \A k \in computed :
              Get(m_data, IterAt(k).m_x, IterAt(k).m_y)
                  = Cost(IterAt(k).m_x, IterAt(k).m_y)
        /\ (main_pc # "fill" \/ (in_flight = {} /\ computed = Positions)) =>
              \A x, y \in 0..(m_width - 1) :
                  x < y => /\ Invocations(x, y) = 1
                           /\ m_data[PairCell(x, y) + 1] = Cost(x, y)
                           /\ Get(m_data, y, x) = Cost(x, y)
        /\ pc # "none" => main_pc # "fill" /\ in_flight = {} /\ computed = Positions

C11_Step ==
    (main_pc = "fill" /\ m_data' # m_data) =>
        \E k \in in_flight :
            LET x == IterAt(k).m_x
                y == IterAt(k).m_y
            IN  /\ computed' = computed \cup {k}
                /\ in_flight' = in_flight \ {k}
                /\ m_data' = [m_data EXCEPT ![PairCell(x, y) + 1] = Cost(x, y)]

\* C11: under any interleaving of the workers of the fill, compute_diff runs
\* once per unordered pair, each run stores into the cell of its own pair
\* only, no two runs in progress share a cell, and from the join on every
\* cell holds the cost of its pair, before compute_mst starts
C11_Fill == [](C11_State) /\ [][C11_Step]_vars

C11_Witness ==
    /\ main_pc = "fill" /\ m_width = 3
    /\ Cardinality(in_flight) = 2 /\ Cardinality(computed) = 1
    /\ \E k \in computed : m_data[IterOffset(IterAt(k)) + 1] # 0

\* a tree with n - 1 edges that reaches each of 1..n-1 once and never 0
SpansFromRoot(tr, n) ==
    LET e == Edges(tr)
    IN  /\ Len(e) = n - 1 /\ tr.m_num_edges = n - 1
        /\ \A v \in 1..(n - 1) : ChildCount(e, v) = 1
        /\ ChildCount(e, 0) = 0

\* C16: on one table of size n >= 2 the heap-based and the array-based
\* compute_mst both return spanning trees rooted at 0 with n-1 edges of the
\* same total cost, and the queue is not empty when top() is taken
C16_SameCost ==
    /\ (hpc = "heap_loop" /\ ht.m_num_edges + 1 < size) => heap # {}
    /\ hpc # "heap_undefined"
    /\ (size >= 2 /\ size = m_width /\ hpc \in {"heap_done", "heap_failed"}) =>
          /\ pc = "mst_done" /\ hpc = "heap_done"
          /\ SpansFromRoot(t, size)
          /\ SpansFromRoot(ht, size)
          /\ TreeCost(t) = TreeCost(ht)

====
